---- MODULE Spec2Model ----
(***************************************************************************)
(* A model of unzip_all.py: the interactive path selector, the breadth-    *)
(* first walk over a Seafile library, and the download / extract / upload  *)
(* pipeline run on every archive the walk finds.                           *)
(*                                                                         *)
(* Python strings are modelled as sequences of one-character strings, so   *)
(* that lower(), endswith(), slicing, os.path.join, os.path.relpath and    *)
(* os.path.dirname are computed character by character as the code does.   *)
(***************************************************************************)
EXTENDS Integers, Sequences, FiniteSets, TLC

(***************************************************************************)
(* Bounds of the model (not program constants).                            *)
(***************************************************************************)
\* how many remote calls may fail during one traversal
MaxFailures == 2
\* longest remote directory path (in characters) the walker may enqueue
MaxPathLen == 6

(***************************************************************************)
(* Strings                                                                 *)
(***************************************************************************)
\* str.lower() on one character (the upper-case letters of the model's alphabet)
LowerChar(c) ==
    CASE c = "Z" -> "z"
      [] c = "I" -> "i"
      [] c = "P" -> "p"
      [] c = "R" -> "r"
      [] c = "Q" -> "q"
      [] c = "T" -> "t"
      [] c = "A" -> "a"
      [] c = "G" -> "g"
      [] OTHER   -> c

\* str.lower()
Lower(s) == [i \in DOMAIN s |-> LowerChar(s[i])]

\* str.endswith(suffix)
EndsWith(s, suffix) ==
    /\ Len(suffix) <= Len(s)
    /\ SubSeq(s, Len(s) - Len(suffix) + 1, Len(s)) = suffix

\* str.startswith(prefix)
StartsWith(s, prefix) ==
    /\ Len(prefix) <= Len(s)
    /\ SubSeq(s, 1, Len(prefix)) = prefix

\* str.replace('\\', '/')
ReplaceBackslash(s) == [i \in DOMAIN s |-> IF s[i] = "\\" THEN "/" ELSE s[i]]

\* str.rstrip('/')
RECURSIVE RStripSlash(_)
RStripSlash(s) ==
    IF s # <<>> /\ s[Len(s)] = "/" THEN RStripSlash(SubSeq(s, 1, Len(s) - 1)) ELSE s

\* str.strip() (blanks only)
RECURSIVE Strip(_)
Strip(s) ==
    IF s # <<>> /\ s[1] = " " THEN Strip(Tail(s))
    ELSE IF s # <<>> /\ s[Len(s)] = " " THEN Strip(SubSeq(s, 1, Len(s) - 1))
    ELSE s

\* position of the last '/' of s, 0 when there is none (str.rfind('/') + 1)
LastSlash(s) ==
    LET ps == {i \in DOMAIN s : s[i] = "/"}
    IN  IF ps = {} THEN 0 ELSE CHOOSE i \in ps : \A j \in ps : j <= i

\* os.path.join(a, b) on POSIX: an absolute b discards a
OsPathJoin(a, b) ==
    IF b # <<>> /\ b[1] = "/" THEN b
    ELSE IF a = <<>> \/ a[Len(a)] = "/" THEN a \o b
    ELSE a \o <<"/">> \o b

\* os.path.join(a, b).replace('\\', '/'), the idiom the script uses for remote paths
RemoteJoin(a, b) == ReplaceBackslash(OsPathJoin(a, b))

\* os.path.dirname(p) on POSIX: the head up to the last '/', trailing slashes
\* of the head stripped unless the head is all slashes
OsPathDirname(p) ==
    LET i    == LastSlash(p)
        head == SubSeq(p, 1, i)
    IN  IF head # <<>> /\ RStripSlash(head) # <<>> THEN RStripSlash(head) ELSE head

\* os.path.basename(p)
OsPathBasename(p) == SubSeq(p, LastSlash(p) + 1, Len(p))

\* os.path.relpath(path, start) for a path at or below start
OsPathRelpath(path, start) ==
    IF path = start THEN <<".">> ELSE SubSeq(path, Len(start) + 2, Len(path))

(***************************************************************************)
(* Archive classifier                                                      *)
(***************************************************************************)
ExtZip    == <<".", "z", "i", "p">>
ExtTar    == <<".", "t", "a", "r">>
ExtTarGz  == <<".", "t", "a", "r", ".", "g", "z">>
ExtTarBz2 == <<".", "t", "a", "r", ".", "b", "z", "2">>
ExtTgz    == <<".", "t", "g", "z">>
ExtTbz2   == <<".", "t", "b", "z", "2">>

ARCHIVE_EXTENSIONS == {ExtZip, ExtTar, ExtTarGz, ExtTarBz2, ExtTgz, ExtTbz2}

is_archive_file(filename) ==
    \E ext \in ARCHIVE_EXTENSIONS : EndsWith(Lower(filename), ext)

\* the first extension, longest first, that the lowercased name ends with
\* (two extensions of equal length cannot both match)
FirstMatchingExt(filename) ==
    LET ms == {ext \in ARCHIVE_EXTENSIONS : EndsWith(Lower(filename), ext)}
    IN  CHOOSE m \in ms : \A o \in ms : Len(o) <= Len(m)

ExtractedSuffix == <<"_", "e", "x", "t", "r", "a", "c", "t", "e", "d">>

\* get_archive_folder_name as it would be if it compared the name as typed
get_archive_folder_name_cased(filename) ==
    IF \E ext \in ARCHIVE_EXTENSIONS : EndsWith(filename, ext)
    THEN SubSeq(filename, 1, Len(filename) - Len(FirstMatchingExt(filename)))
    ELSE filename \o ExtractedSuffix

get_archive_folder_name(filename) ==
    IF \E ext \in ARCHIVE_EXTENSIONS : EndsWith(Lower(filename), ext)
    THEN SubSeq(filename, 1, Len(filename) - Len(FirstMatchingExt(filename)))
    ELSE filename \o ExtractedSuffix

(***************************************************************************)
(* Console input                                                           *)
(***************************************************************************)
Digits == <<"0", "1", "2", "3", "4", "5", "6", "7", "8", "9">>

IsDigit(c) == \E d \in DOMAIN Digits : Digits[d] = c

DigitValue(c) == (CHOOSE d \in DOMAIN Digits : Digits[d] = c) - 1

\* int(s) raises ValueError unless s is a decimal numeral
IsNumeral(s) == s # <<>> /\ \A i \in DOMAIN s : IsDigit(s[i])

\* int(s) for a decimal numeral
RECURSIVE IntOf(_)
IntOf(s) ==
    IF s = <<>> THEN 0
    ELSE 10 * IntOf(SubSeq(s, 1, Len(s) - 1)) + DigitValue(s[Len(s)])

\* str(n) for a natural number
RECURSIVE StrOf(_)
StrOf(n) ==
    IF n < 10 THEN <<Digits[n + 1]>> ELSE StrOf(n \div 10) \o <<Digits[(n % 10) + 1]>>

\* user_input in a pass of the selector that ended before its prompt
NoInput == << "None" >>

\* the lines the operator may type at a prompt
Inputs ==
    { <<"q">>, <<"Q">>, <<"0">>, <<".">>, <<"1">>, <<" ", "2">>, <<"9">>, <<"x">> }

(***************************************************************************)
(* The remote service (seafileapi): libraries, listings, aliases          *)
(***************************************************************************)
Root == <<"/">>

NameD    == <<"d">>
NameR    == <<"r">>
NameL    == <<"l">>
NameE    == <<"e">>
NameF    == <<"f">>
NameRZip == <<"r", ".", "z", "i", "p">>
NameRTgz == <<"r", ".", "t", "g", "z">>
NameRZIP == <<"R", ".", "Z", "I", "P">>
NameIZip == <<"i", ".", "z", "i", "p">>
NameRZipZip == <<"r", ".", "z", "i", "p", ".", "z", "i", "p">>

FileItem(n) == [name |-> n, type |-> "file"]
DirItem(n)  == [name |-> n, type |-> "dir"]

\* Library A: three archives in the root, two of them with the same target
\* name; a subdirectory that the root's listing references twice; in the
\* subdirectory an archive named like one of the root's.
LibA ==
    ( Root :> << FileItem(NameRZip), FileItem(NameRTgz), FileItem(NameRZIP),
                 DirItem(NameD), DirItem(NameD) >> )
    @@ ( <<"/", "d">> :> << FileItem(NameRZip) >> )

\* Library B: the target directory of both archives of the root already
\* exists (an earlier run created it); the first archive is corrupt, the
\* second holds an archive; the directory holds an archive whose target
\* name is the first archive's name.
LibB ==
    ( Root :> << FileItem(NameRZip), FileItem(NameRTgz), DirItem(NameR) >> )
    @@ ( <<"/", "r">> :> << FileItem(NameRZipZip) >> )

\* Library C: the root holds a subdirectory that aliases the root itself.
LibC == ( Root :> << DirItem(NameL) >> )

\* Library D: a tree of depth two, an archive and two directories in the
\* root; in the second directory two archives with the same target name,
\* which is also the target name of the root's archive.
LibD ==
    ( Root :> << FileItem(NameRZip), DirItem(NameD), DirItem(NameE) >> )
    @@ ( <<"/", "d">> :> << DirItem(NameF) >> )
    @@ ( <<"/", "d", "/", "f">> :> << >> )
    @@ ( <<"/", "e">> :> << FileItem(NameRZip), FileItem(NameRTgz) >> )

RepoA == [id |-> "A", name |-> "a"]
RepoB == [id |-> "B", name |-> "b"]
RepoC == [id |-> "C", name |-> "c"]
RepoD == [id |-> "D", name |-> "d"]

InitialLibrary(id) ==
    CASE id = "A" -> LibA
      [] id = "B" -> LibB
      [] id = "C" -> LibC
      [] id = "D" -> LibD

\* alias paths of a library: link path -> the directory it stands for
Aliases(id) ==
    IF id = "C" THEN ( <<"/", "l">> :> Root ) ELSE << >>

\* what an archive stored at a remote path holds: the member paths inside
\* it, or a damaged container
ArchiveContent(id, path) ==
    CASE id = "A" /\ path = <<"/", "r", ".", "z", "i", "p">> ->
            [corrupt |-> FALSE, members |-> { <<"x">>, <<"s", "/", "y">> }]
      [] id = "A" /\ path = <<"/", "r", ".", "t", "g", "z">> ->
            [corrupt |-> FALSE, members |-> { <<"v">> }]
      [] id = "A" /\ path = <<"/", "R", ".", "Z", "I", "P">> ->
            [corrupt |-> FALSE, members |-> { <<"u">> }]
      [] id = "A" /\ path = <<"/", "d", "/", "r", ".", "z", "i", "p">> ->
            [corrupt |-> FALSE, members |-> { <<"w">> }]
      [] id = "B" /\ path = <<"/", "r", ".", "t", "g", "z">> ->
            [corrupt |-> FALSE, members |-> { NameIZip }]
      [] id = "B" /\ path = <<"/", "r", "/">> \o NameRZipZip ->
            [corrupt |-> FALSE, members |-> { <<"z">> }]
      [] id = "D" /\ path = <<"/">> \o NameRZip ->
            [corrupt |-> FALSE, members |-> { <<"x">> }]
      [] id = "D" /\ path = <<"/", "e", "/">> \o NameRZip ->
            [corrupt |-> FALSE, members |-> { <<"w">> }]
      [] id = "D" /\ path = <<"/", "e", "/">> \o NameRTgz ->
            [corrupt |-> FALSE, members |-> { <<"v">> }]
      [] OTHER -> [corrupt |-> TRUE, members |-> {}]

\* the directory a remote path stands for, aliases followed
RECURSIVE Resolve(_, _)
Resolve(id, p) ==
    LET al   == Aliases(id)
        hits == {l \in DOMAIN al :
                    /\ StartsWith(p, l)
                    /\ (Len(p) = Len(l) \/ p[Len(l) + 1] = "/")}
    IN  IF hits = {} THEN p
        ELSE LET l    == CHOOSE h \in hits : TRUE
                 rest == SubSeq(p, Len(l) + 2, Len(p))
             IN  Resolve(id, IF rest = <<>> THEN al[l] ELSE OsPathJoin(al[l], rest))

\* names of a listing
ItemNames(items) == {items[i].name : i \in DOMAIN items}

\* list_dir can answer for an existing directory
CanList(id, lib, p) == Resolve(id, p) \in DOMAIN lib

ListDirResult(id, lib, p) == lib[Resolve(id, p)]

\* download_file can answer for a file its parent's listing holds
CanDownload(id, lib, p) ==
    LET d == Resolve(id, OsPathDirname(p))
    IN  /\ d \in DOMAIN lib
        /\ \E i \in DOMAIN lib[d] :
              lib[d][i].type = "file" /\ lib[d][i].name = OsPathBasename(p)

\* create_dir needs the parent directory
CanCreateDir(id, lib, p) == Resolve(id, OsPathDirname(p)) \in DOMAIN lib

\* the library after a successful create_dir(p); an existing directory is kept
AfterCreateDir(id, lib, p) ==
    LET parent == Resolve(id, OsPathDirname(p))
        full   == OsPathJoin(parent, OsPathBasename(p))
    IN  IF Resolve(id, full) \in DOMAIN lib THEN lib
        ELSE (full :> << >>)
             @@ [lib EXCEPT ![parent] = Append(@, DirItem(OsPathBasename(p)))]

\* upload_file needs the destination directory
CanUpload(id, lib, dir) == Resolve(id, dir) \in DOMAIN lib

\* the library after a successful upload_file(dir, local file named n)
AfterUpload(id, lib, dir, n) ==
    LET d == Resolve(id, dir)
    IN  IF n \in ItemNames(lib[d]) THEN lib
        ELSE [lib EXCEPT ![d] = Append(@, FileItem(n))]

(***************************************************************************)
(* The local filesystem: the scratch directory and what is put in it       *)
(***************************************************************************)
\* the directory tempfile.TemporaryDirectory() hands out
TempDir == <<"/", "t">>

NoFiles == << >>

LocalDir == [type |-> "dir", origin |-> << >>, member |-> << >>]

\* a local file remembers whose bytes it holds: the remote archive it was
\* downloaded from and, for an extracted file, the member it was unpacked from
LocalFile(origin, member) == [type |-> "file", origin |-> origin, member |-> member]

\* a set as a sequence, in some fixed order (os.scandir order)
SetToSeq(S) ==
    CHOOSE q \in [1 .. Cardinality(S) -> S] : \A i, j \in DOMAIN q : q[i] = q[j] => i = j

\* the entries of one kind directly inside a local directory
LocalChildren(fs, dir, type) ==
    {q \in DOMAIN fs : fs[q].type = type /\ q # dir /\ OsPathDirname(q) = dir}

\* the directories between top (excluded) and the file p
RECURSIVE DirsBetween(_, _)
DirsBetween(p, top) ==
    LET d == OsPathDirname(p)
    IN  IF d = top \/ Len(d) <= Len(top) THEN {} ELSE {d} \cup DirsBetween(d, top)

\* os.makedirs(d, exist_ok=True) raises FileExistsError: d is there and is
\* not a directory
MakeDirsRaises(fs, d) == d \in DOMAIN fs /\ fs[d].type # "dir"

\* os.makedirs(d, exist_ok=True), when it does not raise
MakeDirs(fs, d) == IF d \in DOMAIN fs THEN fs ELSE (d :> LocalDir) @@ fs

\* a download cannot be written where a directory is
CanWriteFile(fs, p) == ~(p \in DOMAIN fs /\ fs[p].type = "dir")

\* ZipFile.extractall / TarFile.extractall: every member is written below
\* extract_to, over whatever is there, and nothing else is removed
ExtractAll(fs, origin, members, extract_to) ==
    LET files == {OsPathJoin(extract_to, m) : m \in members}
        dirs  == UNION {DirsBetween(f, extract_to) : f \in files}
        memberOf(f) == CHOOSE m \in members : OsPathJoin(extract_to, m) = f
    IN  [q \in DOMAIN fs \cup files \cup dirs |->
            IF q \in files THEN LocalFile(origin, memberOf(q))
            ELSE IF q \in DOMAIN fs THEN fs[q]
            ELSE LocalDir]

TarExtensions == {ExtTar, ExtTarGz, ExtTarBz2, ExtTgz, ExtTbz2}

\* extract_archive(file_path, extract_to): the result and the filesystem it
\* leaves.  `content` is what the file at file_path holds.
extract_archive(fs, content, file_path, extract_to) ==
    IF EndsWith(file_path, ExtZip) \/ \E ext \in TarExtensions : EndsWith(file_path, ext)
    THEN IF content.corrupt
         THEN [ok |-> FALSE, fs |-> fs]
         ELSE [ok |-> TRUE,
               fs |-> ExtractAll(fs, fs[file_path].origin, content.members, extract_to)]
    ELSE [ok |-> TRUE, fs |-> fs]

\* what os.walk yields for the directory root: (root, dirs, files)
OsWalkEntry(fs, root) ==
    [root  |-> root,
     dirs  |-> SetToSeq({OsPathBasename(q) : q \in LocalChildren(fs, root, "dir")}),
     files |-> SetToSeq({OsPathBasename(q) : q \in LocalChildren(fs, root, "file")})]

\* the directories os.walk descends into after an entry, before what it
\* had left to visit (top-down, depth first)
OsWalkDescend(entry, pending) ==
    [i \in DOMAIN entry.dirs |-> OsPathJoin(entry.root, entry.dirs[i])] \o pending

\* the upload directory as it would be if the tree were flattened
upload_seafile_dir_flat(target_seafile_dir, rel_path) == target_seafile_dir

\* lines 212-220: the remote directory a local directory of the extracted
\* tree is uploaded to
upload_seafile_dir(target_seafile_dir, rel_path) ==
    IF rel_path = <<".">> THEN target_seafile_dir
    ELSE RemoteJoin(target_seafile_dir, rel_path)

\* the remote calls of one os.walk entry, in the order the loop body issues them
WalkEntryCalls(entry, local_top, remote_top) ==
    LET up == upload_seafile_dir(remote_top, OsPathRelpath(entry.root, local_top))
    IN  [i \in DOMAIN entry.dirs |->
            [op |-> "create_dir", path |-> RemoteJoin(up, entry.dirs[i]), local |-> << >>]]
        \o
        [i \in DOMAIN entry.files |->
            [op |-> "upload_file", path |-> up, local |-> OsPathJoin(entry.root, entry.files[i])]]

(***************************************************************************)
(* State                                                                   *)
(***************************************************************************)
VARIABLES
    status,             \* "running", or how the process ended
    pc,                 \* the statement the process is at
    repos,              \* what list_repos answers
    remote,             \* library id -> (directory path -> listing)
    current_repo,       \* interactive_select_path: the chosen repository or "None"
    current_repo_name,  \* interactive_select_path: its name or "None"
    current_path,       \* interactive_select_path: the path shown
    user_input,         \* interactive_select_path: what the last pass read, stripped
    repo_id,            \* process_path_recursively: parameter
    path,               \* process_path_recursively: parameter
    temp_exists,        \* the TemporaryDirectory exists on disk
    localfs,            \* local path -> entry, below the scratch directory
    queue,              \* process_path_recursively: pending paths
    processed_paths,    \* process_path_recursively: paths dequeued
    walk_path,          \* process_path_recursively: its current_path
    archives_in_dir,    \* process_path_recursively: archives of the listing
    dirs_in_dir,        \* process_path_recursively: directories of the listing
    archive_index,      \* position of the for loop over archives_in_dir
    archive_name,       \* handle_archive_file: local variables
    archive_full_path,
    folder_name,
    archive_local_path,
    extract_dir,
    target_seafile_dir,
    walk_dirs,          \* handle_archive_file: directories os.walk has yet to yield
    todo,               \* handle_archive_file: calls left in the current os.walk entry
    failures,           \* remote calls that failed during the traversal
    calls               \* history: the calls made and the messages printed

vars == << status, pc, repos, remote, current_repo, current_repo_name, current_path,
           user_input,
           repo_id, path, temp_exists, localfs, queue, processed_paths, walk_path,
           archives_in_dir, dirs_in_dir, archive_index, archive_name, archive_full_path,
           folder_name, archive_local_path, extract_dir, target_seafile_dir, walk_dirs,
           todo, failures, calls >>

\* what the selector has chosen so far
selection == << current_repo, current_repo_name, current_path >>

selectorVars == << selection, user_input >>

handleVars == << archive_name, archive_full_path, folder_name, archive_local_path,
                 extract_dir, target_seafile_dir >>

walkVars == << queue, processed_paths, walk_path, archives_in_dir, dirs_in_dir,
               archive_index, handleVars, walk_dirs, todo >>

\* one entry of the history
Entry(op, arch, p, ok) ==
    [op |-> op, arch |-> arch, path |-> p, ok |-> ok,
     names |-> {}, dirs |-> {}, local |-> << >>, origin |-> << >>, member |-> << >>, why |-> ""]

InitWith(rs) ==
    /\ status = "running"
    /\ pc = "auth"
    /\ repos = rs
    /\ remote = [id \in {rs[i].id : i \in DOMAIN rs} |-> InitialLibrary(id)]
    /\ current_repo = "None"
    /\ current_repo_name = "None"
    /\ current_path = Root
    /\ user_input = NoInput
    /\ repo_id = "None"
    /\ path = << >>
    /\ temp_exists = FALSE
    /\ localfs = NoFiles
    /\ queue = << >>
    /\ processed_paths = {}
    /\ walk_path = << >>
    /\ archives_in_dir = << >>
    /\ dirs_in_dir = << >>
    /\ archive_index = 0
    /\ archive_name = << >>
    /\ archive_full_path = << >>
    /\ folder_name = << >>
    /\ archive_local_path = << >>
    /\ extract_dir = << >>
    /\ target_seafile_dir = << >>
    /\ walk_dirs = << >>
    /\ todo = << >>
    /\ failures = 0
    /\ calls = << >>

Init == InitWith(<< RepoA, RepoB >>)

(***************************************************************************)
(* main: authentication                                                    *)
(***************************************************************************)
Auth ==
    /\ status = "running" /\ pc = "auth"
    /\ \/ pc' = "select" /\ status' = status
       \/ pc' = pc /\ status' = "exit1"
    /\ UNCHANGED << repos, remote, selectorVars, repo_id, path, temp_exists, localfs,
                    walkVars, failures, calls >>

(***************************************************************************)
(* interactive_select_path                                                 *)
(***************************************************************************)
\* the except clause of the loop: back to repository selection
SelectorReset ==
    /\ current_repo' = "None"
    /\ current_repo_name' = "None"
    /\ current_path' = Root

\* repos_map: the key str(i+1) of every listed repository
ReposMapKeys == {StrOf(i) : i \in DOMAIN repos}

ReposMap(key) == repos[CHOOSE i \in DOMAIN repos : StrOf(i) = key]

\* list(dirs_map.keys()): the directory names of a listing, each once, in
\* the order of first appearance
RECURSIVE DirChoices(_)
DirChoices(items) ==
    IF items = << >> THEN << >>
    ELSE LET front == DirChoices(SubSeq(items, 1, Len(items) - 1))
             last  == items[Len(items)]
         IN  IF last.type = "dir" /\ ~ \E i \in DOMAIN front : front[i] = last.name
             THEN Append(front, last.name)
             ELSE front

\* the ascend sentinel as it would be if it went back to the root at once
AscendPathToRoot(p) == Root

\* lines 137-141: the ascend sentinel on a path other than the root
AscendPath(p) ==
    LET up == OsPathDirname(RStripSlash(p))
    IN  IF up = << >> THEN Root ELSE up

\* the selector as it would be if an invalid input sent it back to the start
RepromptFromStart == SelectorReset

\* lines 94-96 and 149-152: an invalid input is reported and the loop goes on
Reprompt == UNCHANGED selection

\* one pass of the loop with no repository chosen: lines 75-96
SelectRepo ==
    /\ status = "running" /\ pc = "select" /\ current_repo = "None"
    /\ \/ \* list_repos raises
          /\ SelectorReset
          /\ user_input' = NoInput
          /\ UNCHANGED << status, pc >>
       \/ \E line \in Inputs :
            /\ user_input' = Strip(line)
            /\ IF Lower(user_input') = <<"q">>
               THEN /\ status' = "exit0"
                    /\ UNCHANGED << pc, selection >>
               ELSE IF user_input' \in ReposMapKeys
               THEN /\ UNCHANGED << status, pc >>
                    /\ \/ /\ current_repo' = ReposMap(user_input').id
                          /\ current_repo_name' = ReposMap(user_input').name
                          /\ current_path' = Root
                       \/ \* get_repo raises
                          SelectorReset
               ELSE /\ Reprompt
                    /\ UNCHANGED << status, pc >>
    /\ UNCHANGED << repos, remote, repo_id, path, temp_exists, localfs, walkVars,
                    failures, calls >>

\* one pass of the loop with a repository chosen: lines 98-152
SelectDir ==
    /\ status = "running" /\ pc = "select" /\ current_repo # "None"
    /\ \/ \* list_dir raises
          /\ SelectorReset
          /\ user_input' = NoInput
          /\ UNCHANGED << pc, repo_id, path >>
       \/ /\ CanList(current_repo, remote[current_repo], current_path)
          /\ \E line \in Inputs :
               LET items       == ListDirResult(current_repo, remote[current_repo], current_path)
                   dir_choices == DirChoices(items)
               IN
               /\ user_input' = Strip(line)
               /\ IF user_input' = <<"0">>
                  THEN /\ repo_id' = current_repo
                       /\ path' = current_path
                       /\ pc' = "tempdir"
                       /\ UNCHANGED selection
                  ELSE IF user_input' = <<".">>
                  THEN /\ IF current_path = Root
                          THEN /\ current_repo' = "None"
                               /\ current_repo_name' = "None"
                               /\ current_path' = current_path
                          ELSE /\ current_path' = AscendPath(current_path)
                               /\ UNCHANGED << current_repo, current_repo_name >>
                       /\ UNCHANGED << pc, repo_id, path >>
                  ELSE IF IsNumeral(user_input')
                          /\ 0 <= IntOf(user_input') - 1
                          /\ IntOf(user_input') - 1 < Len(dir_choices)
                  THEN /\ Len(RemoteJoin(current_path, dir_choices[IntOf(user_input')])) <= MaxPathLen
                       /\ current_path' = RemoteJoin(current_path, dir_choices[IntOf(user_input')])
                       /\ UNCHANGED << current_repo, current_repo_name, pc, repo_id, path >>
                  ELSE /\ Reprompt
                       /\ UNCHANGED << pc, repo_id, path >>
    /\ UNCHANGED << status, repos, remote, temp_exists, localfs, walkVars, failures, calls >>

(***************************************************************************)
(* main: the scratch directory, and the start of process_path_recursively  *)
(***************************************************************************)
\* leaving the with block as it would be if nothing were removed
CleanupSkipped == UNCHANGED << temp_exists, localfs >>

\* TemporaryDirectory.__exit__: the scratch directory and all below it go
Cleanup ==
    /\ temp_exists' = FALSE
    /\ localfs' = NoFiles

\* an exception that nothing catches leaves the with block and ends the process
Uncaught ==
    /\ status' = "traceback"
    /\ Cleanup

\* with tempfile.TemporaryDirectory() as temp_dir: line 304
EnterTempDir ==
    /\ status = "running" /\ pc = "tempdir"
    /\ temp_exists' = TRUE
    /\ localfs' = (TempDir :> LocalDir)
    /\ pc' = "get_repo"
    /\ UNCHANGED << status, repos, remote, selectorVars, repo_id, path, walkVars,
                    failures, calls >>

\* repo = seafile_api.get_repo(repo_id): line 250, outside every try
GetRepo ==
    /\ status = "running" /\ pc = "get_repo"
    /\ \/ /\ pc' = "get_repo_details"
          /\ calls' = Append(calls, Entry("get_repo", << >>, << >>, TRUE))
          /\ UNCHANGED << status, temp_exists, localfs >>
       \/ /\ Uncaught
          /\ calls' = Append(calls, Entry("get_repo", << >>, << >>, FALSE))
          /\ UNCHANGED pc
    /\ UNCHANGED << repos, remote, selectorVars, repo_id, path, walkVars, failures >>

\* repo_details = repo.get_repo_details(): line 251, outside every try;
\* then the queue and the visited set are set up: lines 254-255
GetRepoDetails ==
    /\ status = "running" /\ pc = "get_repo_details"
    /\ \/ /\ pc' = "walk"
          /\ queue' = << path >>
          /\ processed_paths' = {}
          /\ calls' = Append(calls, Entry("get_repo_details", << >>, << >>, TRUE))
          /\ UNCHANGED << status, temp_exists, localfs >>
       \/ /\ Uncaught
          /\ calls' = Append(calls, Entry("get_repo_details", << >>, << >>, FALSE))
          /\ UNCHANGED << pc, queue, processed_paths >>
    /\ UNCHANGED << repos, remote, selectorVars, repo_id, path, walk_path, archives_in_dir,
                    dirs_in_dir, archive_index, handleVars, walk_dirs, todo, failures >>

(***************************************************************************)
(* process_path_recursively: the loop                                      *)
(***************************************************************************)
\* the items of a listing the walker keeps as archives: line 273
ArchivesOf(items) ==
    SelectSeq(items, LAMBDA item : item.type = "file" /\ is_archive_file(item.name))

\* the items of a listing the walker keeps as directories: line 275
DirsOf(items) ==
    SelectSeq(items, LAMBDA item :
        /\ ~(item.type = "file" /\ is_archive_file(item.name))
        /\ item.type = "dir")

\* the paths lines 285-287 append to the queue
ChildPaths(current, dirs) ==
    [i \in DOMAIN dirs |-> RemoteJoin(current, dirs[i].name)]

\* handle_archive_file(repo, seafile_dir, archive_item, temp_dir) is called:
\* the values its local variables take at lines 165-168, 183, 192 and 201
CallHandle(seafile_dir, archive_item) ==
    /\ archive_name' = archive_item.name
    /\ archive_full_path' = RemoteJoin(seafile_dir, archive_item.name)
    /\ folder_name' = get_archive_folder_name(archive_item.name)
    /\ archive_local_path' = OsPathJoin(TempDir, archive_item.name)
    /\ extract_dir' = OsPathJoin(TempDir, folder_name')
    /\ target_seafile_dir' = RemoteJoin(seafile_dir, folder_name')

\* the queue as it would be if new paths were put in front of it
EnqueueInFront(q, children) == children \o q

\* lines 285-287: queue.append for each directory of the listing
Enqueue(q, children) == q \o children

\* the queue as it would be if a failed listing fell through to lines 285-287
\* with the directories of the listing before
QueueAfterFailedListingFallsThrough(rest, p, stale_dirs) ==
    Enqueue(rest, ChildPaths(p, stale_dirs))

\* lines 266-268: a failed listing goes on with the rest of the queue
QueueAfterFailedListing(rest, p, stale_dirs) == rest

\* queue.pop(0) leaves the rest
PopRest(q) == Tail(q)

\* line 260 as it would be without the visited set
AlreadyProcessedNever(p, processed) == FALSE

\* line 260: the path was dequeued before
AlreadyProcessed(p, processed) == p \in processed

\* one pass of the while loop up to the for loop over the archives
WalkStep ==
    /\ status = "running" /\ pc = "walk"
    /\ queue # << >>
    /\ Len(Head(queue)) <= MaxPathLen
    /\ LET p    == Head(queue)
           rest == PopRest(queue)
       IN
       IF AlreadyProcessed(p, processed_paths)
       THEN /\ queue' = rest
            /\ UNCHANGED << pc, processed_paths, walk_path, archives_in_dir, dirs_in_dir,
                            archive_index, handleVars, failures, calls >>
       ELSE /\ processed_paths' = processed_paths \cup {p}
            /\ walk_path' = p
            /\ \/ \* list_dir raises: lines 266-268
                  /\ failures < MaxFailures \/ ~CanList(repo_id, remote[repo_id], p)
                  /\ failures' = IF CanList(repo_id, remote[repo_id], p)
                                 THEN failures + 1 ELSE failures
                  /\ calls' = Append(calls, Entry("list_dir", << >>, p, FALSE))
                  /\ queue' = QueueAfterFailedListing(rest, p, dirs_in_dir)
                  /\ UNCHANGED << pc, archives_in_dir, dirs_in_dir, archive_index, handleVars >>
               \/ /\ CanList(repo_id, remote[repo_id], p)
                  /\ LET items == ListDirResult(repo_id, remote[repo_id], p)
                     IN  /\ archives_in_dir' = ArchivesOf(items)
                         /\ dirs_in_dir' = DirsOf(items)
                         /\ calls' = Append(calls,
                               [Entry("list_dir", << >>, p, TRUE)
                                   EXCEPT !.names = ItemNames(items),
                                          !.dirs = ItemNames(DirsOf(items))])
                         /\ IF ArchivesOf(items) = << >>
                            THEN /\ queue' = Enqueue(rest, ChildPaths(p, DirsOf(items)))
                                 /\ UNCHANGED << pc, archive_index, handleVars >>
                            ELSE /\ queue' = rest
                                 /\ pc' = "guard"
                                 /\ archive_index' = 1
                                 /\ CallHandle(p, archives_in_dir'[1])
                  /\ UNCHANGED failures
    /\ UNCHANGED << status, repos, remote, selectorVars, repo_id, path, temp_exists,
                    localfs, walk_dirs, todo >>

\* the queue is empty: the function returns, the with block is left and
\* main returns
WalkEnd ==
    /\ status = "running" /\ pc = "walk"
    /\ queue = << >>
    /\ status' = "exit0"
    /\ Cleanup
    /\ UNCHANGED << pc, repos, remote, selectorVars, repo_id, path, walkVars, failures,
                    calls >>

(***************************************************************************)
(* handle_archive_file                                                     *)
(***************************************************************************)
\* the remote file a path names, aliases followed
RemoteFileId(p) == OsPathJoin(Resolve(repo_id, OsPathDirname(p)), OsPathBasename(p))

\* the guard as it would be if it never found the target
TargetExistsNever(folder, existing_items) == FALSE

\* line 174: the idempotency guard
TargetExists(folder, existing_items) == folder \in existing_items

\* a remote call of the traversal raises: at will while the failure budget
\* lasts, and always when the service cannot answer
Raises(can) ==
    /\ failures < MaxFailures \/ ~can
    /\ failures' = IF can THEN failures + 1 ELSE failures

\* the for loop as it would be if a failed download ended it
LoopStopsOnDownloadFailure(why) ==
    why # "download" /\ archive_index < Len(archives_in_dir)

\* line 282: the for loop has another archive, whatever the last call did
LoopGoesOn(why) == archive_index < Len(archives_in_dir)

\* the directories to enqueue as they would be if the directory were listed
\* once more after its archives were handled
DirsToEnqueueListedAgain ==
    DirsOf(ListDirResult(repo_id, remote[repo_id], walk_path))

\* lines 270-276 and 285: the directories of the listing made at line 265
DirsToEnqueue == dirs_in_dir

\* handle_archive_file returns: the for loop goes on with the next archive,
\* and after the last one lines 285-287 enqueue the subdirectories
Return(why, entries) ==
    /\ calls' = calls \o entries
                \o << [Entry("return", archive_full_path, walk_path, TRUE) EXCEPT !.why = why] >>
    /\ todo' = << >>
    /\ walk_dirs' = << >>
    /\ IF LoopGoesOn(why)
       THEN /\ archive_index' = archive_index + 1
            /\ pc' = "guard"
            /\ CallHandle(walk_path, archives_in_dir[archive_index + 1])
            /\ UNCHANGED queue
       ELSE /\ archive_index' = 0
            /\ pc' = "walk"
            /\ queue' = Enqueue(queue, ChildPaths(walk_path, DirsToEnqueue))
            /\ UNCHANGED handleVars
    /\ UNCHANGED << processed_paths, walk_path, archives_in_dir, dirs_in_dir >>

\* handle_archive_file goes on to another of its statements
Proceed(next, entries, dirs_left, calls_left) ==
    /\ calls' = calls \o entries
    /\ pc' = next
    /\ walk_dirs' = dirs_left
    /\ todo' = calls_left
    /\ UNCHANGED << queue, processed_paths, walk_path, archives_in_dir, dirs_in_dir,
                    archive_index, handleVars >>

\* the except branch of the guard as it would be if it gave the archive up
GuardListingFailedSkips(entries) == Return("skip", entries)

\* lines 177-180: the guard's listing failed; a warning, and processing goes on
GuardListingFailed(entries) == Proceed("download", entries, << >>, << >>)

\* lines 165-180: the fresh listing and the check for the target folder
HandleGuard ==
    /\ status = "running" /\ pc = "guard"
    /\ LET can == CanList(repo_id, remote[repo_id], walk_path) IN
       \/ /\ can
          /\ LET items == ListDirResult(repo_id, remote[repo_id], walk_path)
                 e     == [Entry("list_dir", archive_full_path, walk_path, TRUE)
                              EXCEPT !.names = ItemNames(items)]
             IN  IF TargetExists(folder_name, ItemNames(items))
                 THEN Return("skip", << e >>)
                 ELSE Proceed("download", << e >>, << >>, << >>)
          /\ UNCHANGED failures
       \/ /\ Raises(can)
          /\ GuardListingFailed(<< Entry("list_dir", archive_full_path, walk_path, FALSE) >>)
    /\ UNCHANGED << status, repos, remote, selectorVars, repo_id, path, temp_exists, localfs >>

\* lines 183-189: the download into the scratch directory
HandleDownload ==
    /\ status = "running" /\ pc = "download"
    /\ LET can == /\ CanDownload(repo_id, remote[repo_id], archive_full_path)
                  /\ CanWriteFile(localfs, archive_local_path)
           e(ok) == [Entry("download_file", archive_full_path, archive_full_path, ok)
                        EXCEPT !.local = archive_local_path]
       IN
       \/ /\ can
          /\ localfs' = (archive_local_path :> LocalFile(RemoteFileId(archive_full_path), << >>))
                        @@ localfs
          /\ Proceed("extract", << e(TRUE) >>, << >>, << >>)
          /\ UNCHANGED failures
       \/ /\ Raises(can)
          /\ Return("download", << e(FALSE) >>)
          /\ UNCHANGED localfs
    /\ UNCHANGED << status, repos, remote, selectorVars, repo_id, path, temp_exists >>

\* line 195: the branch on what extract_archive returned
ExtractSucceeded(res) == res.ok

\* lines 192-196 and 243-244: the extraction directory and extract_archive.
\* os.makedirs is outside every try, and so is the call of
\* handle_archive_file at line 283: what it raises ends the process
HandleExtract ==
    /\ status = "running" /\ pc = "extract"
    /\ IF MakeDirsRaises(localfs, extract_dir)
       THEN /\ Uncaught
            /\ calls' = Append(calls,
                  [Entry("makedirs", archive_full_path, extract_dir, FALSE)
                      EXCEPT !.local = archive_local_path])
            /\ UNCHANGED << pc, walkVars >>
       ELSE LET content == ArchiveContent(repo_id, localfs[archive_local_path].origin)
                res     == extract_archive(MakeDirs(localfs, extract_dir), content,
                                           archive_local_path, extract_dir)
                e       == [Entry("extract", archive_full_path, extract_dir, res.ok)
                               EXCEPT !.local = archive_local_path]
            IN  /\ localfs' = res.fs
                /\ IF ExtractSucceeded(res)
                   THEN Proceed("create", << e >>, << >>, << >>)
                   ELSE Return("extract", << e >>)
                /\ UNCHANGED << status, temp_exists >>
    /\ UNCHANGED << repos, remote, selectorVars, repo_id, path, failures >>

\* the except branch as it would be without its return
TargetNotCreatedGoesOn(entries) == Proceed("os_walk", entries, << extract_dir >>, << >>)

\* lines 205-208: the target directory could not be created
TargetNotCreated(entries) == Return("create", entries)

\* lines 199-209: the remote target directory; then os.walk is started
HandleCreateTarget ==
    /\ status = "running" /\ pc = "create"
    /\ LET can  == CanCreateDir(repo_id, remote[repo_id], target_seafile_dir)
           e(ok) == Entry("create_dir", archive_full_path, target_seafile_dir, ok)
       IN
       \/ /\ can
          /\ remote' = [remote EXCEPT ![repo_id] = AfterCreateDir(repo_id, @, target_seafile_dir)]
          /\ Proceed("os_walk", << e(TRUE) >>, << extract_dir >>, << >>)
          /\ UNCHANGED failures
       \/ /\ Raises(can)
          /\ TargetNotCreated(<< e(FALSE) >>)
          /\ UNCHANGED remote
    /\ UNCHANGED << status, repos, selectorVars, repo_id, path, temp_exists, localfs >>

\* line 211: os.walk yields its next (root, dirs, files), or is exhausted
\* and line 240 reports the upload
HandleOsWalk ==
    /\ status = "running" /\ pc = "os_walk"
    /\ IF walk_dirs = << >>
       THEN Return("uploaded", << >>)
       ELSE \E entry \in {OsWalkEntry(localfs, Head(walk_dirs))} :
              \E entry_calls \in {WalkEntryCalls(entry, extract_dir, target_seafile_dir)} :
                 Proceed(IF entry_calls = << >> THEN "os_walk" ELSE "upload", << >>,
                         OsWalkDescend(entry, Tail(walk_dirs)), entry_calls)
    /\ UNCHANGED << status, repos, remote, selectorVars, repo_id, path, temp_exists,
                    localfs, failures >>

\* a failed call of the loop body as it would be if it left the loop for the
\* handler of line 241
LoopCallFailedLeaves(entries) == Return("upload", entries)

\* lines 226-227 and 235-237: a failed call is reported and the loop goes on
LoopCallFailed(entries) ==
    Proceed(IF Tail(todo) = << >> THEN "os_walk" ELSE "upload", entries, walk_dirs, Tail(todo))

\* lines 223-239: one remote call of the loop body, a create_dir for a
\* subdirectory or an upload_file for a file
HandleUpload ==
    /\ status = "running" /\ pc = "upload"
    /\ LET call == Head(todo)
           can  == IF call.op = "create_dir"
                   THEN CanCreateDir(repo_id, remote[repo_id], call.path)
                   ELSE CanUpload(repo_id, remote[repo_id], call.path)
           e(ok) == IF call.op = "create_dir"
                    THEN Entry("create_dir", archive_full_path, call.path, ok)
                    ELSE [Entry("upload_file", archive_full_path, call.path, ok)
                             EXCEPT !.local = call.local,
                                    !.origin = localfs[call.local].origin,
                                    !.member = localfs[call.local].member]
           after(entries) ==
                Proceed(IF Tail(todo) = << >> THEN "os_walk" ELSE "upload", entries,
                        walk_dirs, Tail(todo))
       IN
       \/ /\ can
          /\ remote' = [remote EXCEPT ![repo_id] =
                IF call.op = "create_dir"
                THEN AfterCreateDir(repo_id, @, call.path)
                ELSE AfterUpload(repo_id, @, call.path, OsPathBasename(call.local))]
          /\ after(<< e(TRUE) >>)
          /\ UNCHANGED failures
       \/ /\ Raises(can)
          /\ LoopCallFailed(<< e(FALSE) >>)
          /\ UNCHANGED remote
    /\ UNCHANGED << status, repos, selectorVars, repo_id, path, temp_exists, localfs >>

(***************************************************************************)
(* The operator interrupts the process (KeyboardInterrupt)                 *)
(***************************************************************************)
\* no except clause of the script catches it; a with block that was entered
\* is left through __exit__
Interrupt ==
    /\ status = "running" /\ pc # "auth"
    /\ status' = "interrupted"
    /\ Cleanup
    /\ UNCHANGED << pc, repos, remote, selectorVars, repo_id, path, walkVars, failures,
                    calls >>

(***************************************************************************)
(* Specifications                                                          *)
(***************************************************************************)
Program ==
    \/ Auth
    \/ SelectRepo
    \/ SelectDir
    \/ EnterTempDir
    \/ GetRepo
    \/ GetRepoDetails
    \/ WalkStep
    \/ WalkEnd
    \/ HandleGuard
    \/ HandleDownload
    \/ HandleExtract
    \/ HandleCreateTarget
    \/ HandleOsWalk
    \/ HandleUpload

Next == Program \/ Interrupt

Spec == Init /\ [][Next]_vars

\* the traversal left alone by the operator: every step is a step of the
\* program, and the program keeps running while it can
LiveSpec == Init /\ [][Program]_vars /\ WF_vars(Program)

\* the same, with a library whose root holds an alias of the root
CycleInit == InitWith(<< RepoC, RepoA >>)

CycleSpec == CycleInit /\ [][Program]_vars /\ WF_vars(Program)

\* the program on a library that is a tree of depth two
TreeInit == InitWith(<< RepoD, RepoA >>)

TreeSpec == TreeInit /\ [][Next]_vars

\* the same, left alone by the operator
TreeLiveSpec == TreeInit /\ [][Program]_vars /\ WF_vars(Program)

(***************************************************************************)
(* The classifier on its own: one listing item of any name, put through    *)
(* the test of line 273 and through get_archive_folder_name of line 168    *)
(***************************************************************************)
NameStems ==
    { << >>, <<"a">>, <<"A">>, <<"a", ".", "t", "a", "r">>, <<"a", ".", "z", "i", "p">>,
      <<"a", ".", "b">> }

NameTails ==
    ARCHIVE_EXTENSIONS \cup
    { << >>, <<".", "Z", "I", "P">>, <<".", "T", "a", "r", ".", "G", "Z">>, <<".", "T", "G", "Z">>,
      <<".", "g", "z">>, <<"z", "i", "p">>, <<".", "t", "a", "r", ".">>,
      <<".", "z", "i", "p", "_">> }

\* the file names the classifier is given
FileNames == {stem \o tail : stem \in NameStems, tail \in NameTails}

ClassifierInit ==
    /\ status = "running"
    /\ pc = "classify"
    /\ repos = << RepoA >>
    /\ remote = [id \in {"A"} |-> InitialLibrary(id)]
    /\ current_repo = "None"
    /\ current_repo_name = "None"
    /\ current_path = Root
    /\ user_input = NoInput
    /\ repo_id = "None"
    /\ path = << >>
    /\ temp_exists = FALSE
    /\ localfs = NoFiles
    /\ queue = << >>
    /\ processed_paths = {}
    /\ walk_path = << >>
    /\ archives_in_dir = << >>
    /\ dirs_in_dir = << >>
    /\ archive_index = 0
    /\ archive_name \in FileNames
    /\ archive_full_path = << >>
    /\ folder_name = << >>
    /\ archive_local_path = << >>
    /\ extract_dir = << >>
    /\ target_seafile_dir = << >>
    /\ walk_dirs = << >>
    /\ todo = << >>
    /\ failures = 0
    /\ calls = << >>

\* line 273 and line 168 applied to the file item named archive_name
Classify ==
    /\ pc = "classify"
    /\ pc' = "classified"
    /\ archives_in_dir' = ArchivesOf(<< FileItem(archive_name) >>)
    /\ folder_name' = get_archive_folder_name(archive_name)
    /\ UNCHANGED << status, repos, remote, selectorVars, repo_id, path, temp_exists, localfs,
                    queue, processed_paths, walk_path, dirs_in_dir, archive_index,
                    archive_name, archive_full_path, archive_local_path, extract_dir,
                    target_seafile_dir, walk_dirs, todo, failures, calls >>

ClassifierSpec == ClassifierInit /\ [][Classify]_vars

(***************************************************************************)
(* Vocabulary of the properties                                            *)
(***************************************************************************)
Calls == DOMAIN calls

\* a call the walker made (not handle_archive_file)
ByWalker(i) == calls[i].arch = << >>

\* the walker's list_dir calls
WalkerListings == {i \in Calls : calls[i].op = "list_dir" /\ ByWalker(i)}

\* the listings the idempotency guard made: one per call of handle_archive_file
GuardListings == {i \in Calls : calls[i].op = "list_dir" /\ ~ByWalker(i)}

\* handle_archive_file was called for the archive at remote path a
Handed(a) == \E i \in GuardListings : calls[i].arch = a

\* handle_archive_file has returned for the archive at remote path a
Returned(a) == \E i \in Calls : calls[i].op = "return" /\ calls[i].arch = a

\* the steps of processing an archive that follow the guard
ProcessingOps == {"download_file", "extract", "create_dir", "upload_file"}

\* the walker has finished with directory d: it listed d and is not in the
\* for loop over d's archives any more
Past(d) ==
    /\ \E i \in WalkerListings : calls[i].path = d /\ calls[i].ok
    /\ walk_path # d \/ pc = "walk"

\* the archive file names in the walker's listing i
ListedArchives(i) == {n \in calls[i].names : is_archive_file(n)}

\* d/n written out, without os.path.join
Slash(d, n) == IF d = Root THEN d \o n ELSE d \o <<"/">> \o n

(***************************************************************************)
(* C1.  Idempotency guard.  Whenever handle_archive_file is called for an  *)
(* archive and the fresh listing of its directory succeeds and holds an    *)
(* entry named like the archive's target folder, nothing is downloaded,    *)
(* extracted, created or uploaded for that archive: the call returns with  *)
(* the skip message.  A target left by an earlier run (library B) is such  *)
(* an entry.                                                               *)
(***************************************************************************)
GuardFound(i) ==
    /\ i \in GuardListings
    /\ calls[i].ok
    /\ get_archive_folder_name(OsPathBasename(calls[i].arch)) \in calls[i].names

C1_GuardSkips ==
    \A i \in Calls :
        GuardFound(i) =>
            /\ \A j \in Calls :
                  calls[j].arch = calls[i].arch => calls[j].op \notin ProcessingOps
            /\ i < Len(calls)
            /\ calls[i + 1].op = "return"
            /\ calls[i + 1].arch = calls[i].arch
            /\ calls[i + 1].why = "skip"

\* the target directory existed before the run, the guard saw it, and the
\* run ended normally
C1_Witness ==
    /\ status = "exit0"
    /\ repo_id = "B"
    /\ \E i \in Calls : GuardFound(i) /\ NameR \in ItemNames(LibB[Root])

(***************************************************************************)
(* C2.  In one call of process_path_recursively no path is listed by the   *)
(* walker more than once, and no archive is handed over more than once,    *)
(* however often the path was appended to the queue; every path the walker *)
(* listed is in processed_paths, and processed_paths only grows.           *)
(***************************************************************************)
C2_ListedOnce ==
    /\ \A i, j \in WalkerListings : calls[i].path = calls[j].path => i = j
    /\ \A i, j \in GuardListings : calls[i].arch = calls[j].arch => i = j
    /\ \A i \in WalkerListings : calls[i].path \in processed_paths

C2_VisitedOnce ==
    /\ []C2_ListedOnce
    /\ [][processed_paths \subseteq processed_paths']_vars

\* /d was appended twice (the root of library A lists it twice), listed
\* once, and its second copy has been dequeued and discarded
C2_Witness ==
    /\ repo_id = "A" /\ path = Root
    /\ pc = "walk" /\ queue = << >>
    /\ Cardinality({i \in Calls : calls[i].op = "return" /\ calls[i].path = <<"/", "d">>}) = 1
    /\ Cardinality({k \in DOMAIN LibA[Root] : LibA[Root][k] = DirItem(NameD)}) = 2

(***************************************************************************)
(* C3.  When the guard did not find the target and every remote call made  *)
(* for the archive succeeded, then on return every file of the extracted   *)
(* tree has been uploaded exactly once, nothing else has been uploaded,    *)
(* and the directory given to upload_file is d/target for a file in the    *)
(* extraction root and d/target/r for a file in the subdirectory r of it   *)
(* (never d/target/.).                                                     *)
(***************************************************************************)
\* handle_archive_file has just returned from the upload loop
JustUploaded ==
    /\ temp_exists
    /\ calls # << >>
    /\ calls[Len(calls)].op = "return"
    /\ calls[Len(calls)].why = "uploaded"

\* every call made for the archive at a succeeded and the guard saw no target
CleanRun(a) ==
    /\ \A i \in Calls : calls[i].arch = a => calls[i].ok
    /\ \A i \in GuardListings :
          calls[i].arch = a
              => get_archive_folder_name(OsPathBasename(a)) \notin calls[i].names

\* the files of the local tree below dir
FilesBelow(dir) ==
    {q \in DOMAIN localfs : localfs[q].type = "file" /\ StartsWith(q, dir \o <<"/">>)}

\* where the spec puts the upload of local file q of the tree at ed
MirrorDir(d, target, ed, q) ==
    IF OsPathDirname(q) = ed THEN Slash(d, target)
    ELSE Slash(d, target) \o <<"/">> \o SubSeq(OsPathDirname(q), Len(ed) + 2, Len(OsPathDirname(q)))

C3_UploadsMirrorTree ==
    JustUploaded =>
        LET a      == calls[Len(calls)].arch
            d      == calls[Len(calls)].path
            target == get_archive_folder_name(OsPathBasename(a))
            ed     == TempDir \o <<"/">> \o target
            ups    == {i \in Calls : calls[i].op = "upload_file" /\ calls[i].arch = a}
        IN  CleanRun(a) =>
                /\ \A q \in FilesBelow(ed) :
                      /\ Cardinality({i \in ups : calls[i].local = q}) = 1
                      /\ \A i \in ups :
                            calls[i].local = q => calls[i].path = MirrorDir(d, target, ed, q)
                /\ \A i \in ups :
                      /\ calls[i].local \in FilesBelow(ed)
                      /\ calls[i].path # Slash(d, target) \o <<"/", ".">>

\* /r.zip of library A, processed without a failure: one file from the root
\* of the tree and one from its subdirectory s have been uploaded
C3_Witness ==
    /\ JustUploaded
    /\ repo_id = "A"
    /\ calls[Len(calls)].arch = <<"/", "r", ".", "z", "i", "p">>
    /\ CleanRun(calls[Len(calls)].arch)
    /\ \E i, j \in Calls :
          /\ calls[i].op = "upload_file" /\ calls[i].path = <<"/", "r">>
          /\ calls[j].op = "upload_file" /\ calls[j].path = <<"/", "r", "/", "s">>

(***************************************************************************)
(* C4.  Each processed archive has its own download path and extraction    *)
(* directory in the scratch area: every file uploaded while archive a is   *)
(* processed was extracted from a, never from another archive.             *)
(***************************************************************************)
C4_UploadsOwnFilesOnly ==
    \A i \in Calls :
        calls[i].op = "upload_file" => calls[i].origin = RemoteFileId(calls[i].arch)

(***************************************************************************)
(* C5.  No failure of a remote call made after authentication ends the     *)
(* process: the process never dies of an exception nobody caught.          *)
(***************************************************************************)
RemoteOps ==
    {"get_repo", "get_repo_details", "list_dir", "download_file", "create_dir", "upload_file"}

C5_NoRemoteFailureEndsProcess ==
    ~ ( /\ status = "traceback"
        /\ calls # << >>
        /\ calls[Len(calls)].op \in RemoteOps
        /\ ~calls[Len(calls)].ok )

(***************************************************************************)
(* C6.  A failed download_file abandons that archive: it is not tried      *)
(* again and nothing is extracted, created or uploaded for it; and once    *)
(* the walker has finished with the directory, every other archive of the  *)
(* same listing has been handed to handle_archive_file and handled to its  *)
(* return.                                                                 *)
(***************************************************************************)
DownloadFailed(i) == i \in Calls /\ calls[i].op = "download_file" /\ ~calls[i].ok

C6_DownloadFailureSkipsOne ==
    \A i \in Calls :
        DownloadFailed(i) =>
            /\ \A j \in Calls :
                  (j # i /\ calls[j].arch = calls[i].arch)
                      => calls[j].op \notin ProcessingOps
            /\ \A l \in WalkerListings :
                  (calls[l].ok /\ calls[l].path = OsPathDirname(calls[i].arch)
                               /\ Past(calls[l].path))
                      => \A n \in ListedArchives(l) :
                            /\ Handed(Slash(calls[l].path, n))
                            /\ Returned(Slash(calls[l].path, n))

\* the download of /r.zip of library A failed, and the two other archives
\* of the root went through the upload loop
C6_Witness ==
    /\ repo_id = "A"
    /\ Past(Root)
    /\ \E i \in Calls : DownloadFailed(i) /\ calls[i].arch = Slash(Root, NameRZip)
    /\ \A n \in {NameRTgz, NameRZIP} :
          \E j \in Calls :
              /\ calls[j].op = "return" /\ calls[j].why = "uploaded"
              /\ calls[j].arch = Slash(Root, n)

(***************************************************************************)
(* C7.  A failure of the local extraction step of an archive (creating the *)
(* extraction directory, then unpacking into it) is a skip of that archive *)
(* only: it is reported by the "extract" return, no create_dir and no      *)
(* upload_file is issued for the archive, the for loop and the queue go on *)
(* (every archive of the directory has been handled once the walker has    *)
(* finished with it), and the process ends normally.                       *)
(***************************************************************************)
ExtractFailed(i) ==
    i \in Calls /\ calls[i].op \in {"makedirs", "extract"} /\ ~calls[i].ok

C7_SkipOnly ==
    \A i \in Calls :
        ExtractFailed(i) =>
            /\ \A j \in Calls :
                  (j > i /\ calls[j].arch = calls[i].arch) => calls[j].op = "return"
            /\ i < Len(calls)
            /\ calls[i + 1].op = "return" /\ calls[i + 1].why = "extract"
            /\ \A l \in WalkerListings :
                  (calls[l].ok /\ calls[l].path = OsPathDirname(calls[i].arch)
                               /\ Past(calls[l].path))
                      => \A n \in ListedArchives(l) : Returned(Slash(calls[l].path, n))

C7_ExtractionFailureIsASkip ==
    /\ []C7_SkipOnly
    /\ (\E i \in Calls : ExtractFailed(i)) ~> (status = "exit0" /\ queue = << >>)

(***************************************************************************)
(* C8.  The visited set keeps the walk from traversing a directory again,  *)
(* also when a listing holds a subdirectory that aliases an ancestor: no   *)
(* directory of the library is listed twice by the walker, which is what   *)
(* bounds the walk by the size of the library and empties the queue.       *)
(***************************************************************************)
C8_NoDirectoryTraversedTwice ==
    \A i, j \in WalkerListings :
        (calls[i].ok /\ calls[j].ok
            /\ Resolve(repo_id, calls[i].path) = Resolve(repo_id, calls[j].path))
        => i = j

(***************************************************************************)
(* C9.  Once the process has ended, the scratch directory does not exist,  *)
(* whether the walk completed, an exception left it or the operator        *)
(* interrupted it.                                                         *)
(***************************************************************************)
C9_ScratchRemoved ==
    status # "running" => (~temp_exists /\ localfs = NoFiles)

\* the operator interrupted the upload loop, with files in the scratch area
C9_Witness ==
    /\ status = "interrupted"
    /\ pc = "upload"
    /\ \E i \in Calls : calls[i].op = "extract" /\ calls[i].ok
    /\ ~temp_exists

(***************************************************************************)
(* C10.  extract_archive returns success only if the members of the        *)
(* archive are in the destination directory afterwards.                    *)
(***************************************************************************)
C10_SuccessMeansExtracted ==
    \A i \in Calls :
        (calls[i].op = "extract" /\ calls[i].ok /\ temp_exists)
        => \A m \in ArchiveContent(repo_id, RemoteFileId(calls[i].arch)).members :
              /\ OsPathJoin(calls[i].path, m) \in DOMAIN localfs
              /\ localfs[OsPathJoin(calls[i].path, m)].type = "file"

(***************************************************************************)
(* C11.  For every file name f: if the lowercased f ends with a recognized *)
(* suffix, get_archive_folder_name(f) is f without its last characters,    *)
(* as many as the longest such suffix has (a.tar.gz gives a), and          *)
(* is_archive_file(f) is true; otherwise the folder name is f followed by  *)
(* "_extracted" and is_archive_file(f) is false.                           *)
(***************************************************************************)
\* the characters of f from position Len(f) - n + 1 on
LastChars(f, n) == SubSeq(f, Len(f) - n + 1, Len(f))

\* the recognized suffixes the lowercased f ends with
SuffixesOf(f) ==
    {ext \in ARCHIVE_EXTENSIONS : Len(ext) <= Len(f) /\ Lower(LastChars(f, Len(ext))) = ext}

C11_FolderNameStripsSuffix ==
    pc = "classified" =>
        IF SuffixesOf(archive_name) # {}
        THEN /\ \E ext \in SuffixesOf(archive_name) :
                   /\ \A o \in SuffixesOf(archive_name) : Len(o) <= Len(ext)
                   /\ Len(folder_name) = Len(archive_name) - Len(ext)
                   /\ folder_name \o LastChars(archive_name, Len(ext)) = archive_name
             /\ archives_in_dir = << FileItem(archive_name) >>
        ELSE /\ folder_name = archive_name \o ExtractedSuffix
             /\ archives_in_dir = << >>

\* A.Tar.GZ was classified: an archive, folder name A
C11_Witness ==
    /\ pc = "classified"
    /\ archive_name = <<"A", ".", "T", "a", "r", ".", "G", "Z">>
    /\ folder_name = <<"A">>
    /\ archives_in_dir # << >>

(***************************************************************************)
(* C12.  The walk is breadth first.  The walker never lists a path before  *)
(* a path of smaller depth, and lists a path below the start only after a  *)
(* successful listing of its parent; and when the walk has come to its end *)
(* the start path and every directory named by a successful listing have   *)
(* been listed exactly once.                                               *)
(***************************************************************************)
\* the number of directory names in a remote path
Depth(p) == IF p = Root THEN 0 ELSE Cardinality({k \in DOMAIN p : p[k] = "/"})

\* how often the walker listed the path p
TimesListed(p) == Cardinality({k \in WalkerListings : calls[k].path = p})

C12_FifoOrder ==
    /\ \A i, j \in WalkerListings : i < j => Depth(calls[i].path) <= Depth(calls[j].path)
    /\ \A j \in WalkerListings :
          calls[j].path # path
              => \E i \in WalkerListings :
                    /\ i < j /\ calls[i].ok
                    /\ calls[i].path = OsPathDirname(calls[j].path)
                    /\ OsPathBasename(calls[j].path) \in calls[i].dirs

C12_AllListedOnce ==
    /\ TimesListed(path) = 1
    /\ \A l \in WalkerListings :
          calls[l].ok => \A n \in calls[l].dirs : TimesListed(Slash(calls[l].path, n)) = 1

\* process_path_recursively has returned (the operator did not quit at a prompt)
WalkEnded == status = "exit0" /\ pc = "walk"

C12_BreadthFirstEachOnce ==
    /\ C12_FifoOrder
    /\ WalkEnded => C12_AllListedOnce

\* library D walked from its root to the end: /, /d, /e, /d/f in this order
C12_Witness ==
    /\ WalkEnded
    /\ repo_id = "D" /\ path = Root
    /\ \E i, j, k, l \in WalkerListings :
          /\ i < j /\ j < k /\ k < l
          /\ calls[i].path = Root
          /\ calls[j].path = <<"/", "d">>
          /\ calls[k].path = <<"/", "e">>
          /\ calls[l].path = <<"/", "d", "/", "f">>

(***************************************************************************)
(* C13.  When the walker's listing of p fails, p is not listed again, no   *)
(* call is made for an archive of p, no path directly below p is enqueued  *)
(* or listed, and at the end of the walk every directory a successful      *)
(* listing named has still been listed; when p is the start path, the      *)
(* failed listing is the last call of the traversal, the queue is empty,   *)
(* and the process ends normally.                                          *)
(***************************************************************************)
WalkerListingFailed(i) == i \in WalkerListings /\ ~calls[i].ok

\* the path q is directly below the directory p
DirectlyBelow(q, p) == q # p /\ OsPathDirname(q) = p

StartListingFailed == \E i \in Calls : WalkerListingFailed(i) /\ calls[i].path = path

C13_SubtreeSkipped ==
    \A i \in Calls :
        WalkerListingFailed(i) =>
            /\ TimesListed(calls[i].path) = 1
            /\ \A j \in Calls :
                  calls[j].arch # << >> => OsPathDirname(calls[j].arch) # calls[i].path
            /\ \A k \in DOMAIN queue : ~DirectlyBelow(queue[k], calls[i].path)
            /\ \A q \in processed_paths : ~DirectlyBelow(q, calls[i].path)
            /\ WalkEnded => C12_AllListedOnce
            /\ calls[i].path = path =>
                  /\ i = Len(calls)
                  /\ queue = << >> /\ pc = "walk"
                  /\ status \in {"running", "exit0"}

C13_ListingFailureSkipsSubtree ==
    /\ []C13_SubtreeSkipped
    /\ StartListingFailed ~> WalkEnded

\* in library D walked from the root the listing of /d failed, /d/f was
\* never listed, and /e, in the queue at that time, was listed
C13_Witness ==
    /\ WalkEnded
    /\ repo_id = "D" /\ path = Root
    /\ \E i, j \in WalkerListings :
          /\ i < j
          /\ ~calls[i].ok /\ calls[i].path = <<"/", "d">>
          /\ calls[j].ok /\ calls[j].path = <<"/", "e">>
    /\ TimesListed(<<"/", "d", "/", "f">>) = 0

(***************************************************************************)
(* C14.  When create_dir fails for the target directory d/target of an     *)
(* archive, handle_archive_file returns at once: no upload_file and no     *)
(* other create_dir is issued for that archive; and once the walker has    *)
(* finished with d, every archive of d's listing has been handled.         *)
(***************************************************************************)
\* the target directory of the archive at remote path a
TargetOf(a) == Slash(OsPathDirname(a), get_archive_folder_name(OsPathBasename(a)))

TargetCreateFailed(i) ==
    /\ i \in Calls
    /\ calls[i].op = "create_dir" /\ ~calls[i].ok
    /\ calls[i].path = TargetOf(calls[i].arch)

C14_NoUploadWithoutTarget ==
    \A i \in Calls :
        TargetCreateFailed(i) =>
            /\ i < Len(calls)
            /\ calls[i + 1].op = "return" /\ calls[i + 1].why = "create"
            /\ calls[i + 1].arch = calls[i].arch
            /\ \A j \in Calls :
                  (j # i /\ calls[j].arch = calls[i].arch)
                      => calls[j].op \notin {"upload_file", "create_dir"}
            /\ \A l \in WalkerListings :
                  (calls[l].ok /\ calls[l].path = OsPathDirname(calls[i].arch)
                               /\ Past(calls[l].path))
                      => \A n \in ListedArchives(l) : Returned(Slash(calls[l].path, n))

\* create_dir failed for /r of library A while /r.zip was handled, with its
\* tree extracted, and the next archive of the root was handled after it
C14_Witness ==
    /\ repo_id = "A"
    /\ \E i \in Calls :
          /\ TargetCreateFailed(i)
          /\ calls[i].arch = Slash(Root, NameRZip)
          /\ \E j \in Calls : j > i /\ calls[j].arch = Slash(Root, NameRTgz)
    /\ OsPathJoin(OsPathJoin(TempDir, NameR), <<"x">>) \in DOMAIN localfs

(***************************************************************************)
(* C15.  A failed upload_file or a failed create_dir for a subdirectory    *)
(* does not end the upload loop: the call after it is the loop's next call *)
(* or the report that the loop is through, and when handle_archive_file    *)
(* returns from the loop every file of the extracted tree has had one      *)
(* upload_file attempt and every subdirectory one create_dir attempt.      *)
(***************************************************************************)
LoopCallFailedAt(i) ==
    /\ i \in Calls /\ ~calls[i].ok
    /\ \/ calls[i].op = "upload_file"
       \/ calls[i].op = "create_dir" /\ calls[i].path # TargetOf(calls[i].arch)

\* the directories of the local tree below dir
DirsBelow(dir) ==
    {q \in DOMAIN localfs : localfs[q].type = "dir" /\ StartsWith(q, dir \o <<"/">>)}

\* the remote path that mirrors the local path q of the tree at ed
MirrorOf(target, ed, q) == target \o SubSeq(q, Len(ed) + 1, Len(q))

C15_LoopGoesOn ==
    \A i \in Calls :
        (LoopCallFailedAt(i) /\ i < Len(calls)) =>
            /\ calls[i + 1].arch = calls[i].arch
            /\ \/ calls[i + 1].op \in {"create_dir", "upload_file"}
               \/ calls[i + 1].op = "return" /\ calls[i + 1].why = "uploaded"

C15_EveryEntryAttempted ==
    JustUploaded =>
        LET a  == calls[Len(calls)].arch
            ed == TempDir \o <<"/">> \o get_archive_folder_name(OsPathBasename(a))
        IN  /\ \A q \in FilesBelow(ed) :
                  Cardinality({i \in Calls : /\ calls[i].op = "upload_file"
                                             /\ calls[i].arch = a
                                             /\ calls[i].local = q}) = 1
            /\ \A q \in DirsBelow(ed) :
                  Cardinality({i \in Calls : /\ calls[i].op = "create_dir"
                                             /\ calls[i].arch = a
                                             /\ calls[i].path = MirrorOf(TargetOf(a), ed, q)}) = 1

C15_UploadFailureDoesNotStopLoop == C15_LoopGoesOn /\ C15_EveryEntryAttempted

\* for /r.zip of library A the create_dir of the subdirectory s failed, the
\* files x and s/y were attempted after it, and the loop was gone through
C15_Witness ==
    /\ JustUploaded
    /\ repo_id = "A"
    /\ calls[Len(calls)].arch = Slash(Root, NameRZip)
    /\ \E i, j, k \in Calls :
          /\ i < j /\ j < k
          /\ LoopCallFailedAt(i) /\ calls[i].op = "create_dir"
          /\ calls[j].op = "upload_file" /\ calls[j].member = <<"x">>
          /\ calls[k].op = "upload_file" /\ calls[k].member = <<"s", "/", "y">>

(***************************************************************************)
(* C16.  When the guard's listing fails, the archive is processed as if    *)
(* the target did not exist: the next call is the download of that         *)
(* archive, the archive is never skipped, and when every later call for it *)
(* succeeded it has gone through extraction and the upload loop by the     *)
(* time handle_archive_file returns.                                       *)
(***************************************************************************)
GuardListingFailedAt(i) == i \in GuardListings /\ ~calls[i].ok

C16_GuardFailureProceeds ==
    \A i \in Calls :
        GuardListingFailedAt(i) =>
            /\ i < Len(calls) =>
                  /\ calls[i + 1].op = "download_file"
                  /\ calls[i + 1].arch = calls[i].arch
            /\ \A r \in Calls :
                  (calls[r].op = "return" /\ calls[r].arch = calls[i].arch) =>
                      /\ calls[r].why # "skip"
                      /\ (\A j \in Calls : (j > i /\ calls[j].arch = calls[i].arch) => calls[j].ok)
                            => /\ calls[r].why = "uploaded"
                               /\ \E j \in Calls :
                                     /\ calls[j].op = "extract" /\ calls[j].arch = calls[i].arch

\* in library B, where the target /r exists, the guard's listing for /r.tgz
\* failed; the archive was downloaded, extracted and its file uploaded
C16_Witness ==
    /\ repo_id = "B"
    /\ \E i, j, r \in Calls :
          /\ i < j /\ j < r
          /\ GuardListingFailedAt(i) /\ calls[i].arch = Slash(Root, NameRTgz)
          /\ calls[j].op = "upload_file" /\ calls[j].ok /\ calls[j].arch = calls[i].arch
          /\ calls[r].op = "return" /\ calls[r].why = "uploaded" /\ calls[r].arch = calls[i].arch

(***************************************************************************)
(* C17.  In interactive_select_path an input that is neither a sentinel of *)
(* the prompt nor a number of its list leaves the chosen repository and    *)
(* path as they were, and the selector prompts again; the selector is left *)
(* for the traversal only by the input 0 at the directory prompt, and then *)
(* with the chosen repository's id and the path shown.                     *)
(***************************************************************************)
AtPrompt == status = "running" /\ pc = "select"

\* how many numbers the directory prompt offers
OfferedDirs ==
    LET items == ListDirResult(current_repo, remote[current_repo], current_path)
    IN  Cardinality({items[i].name : i \in {k \in DOMAIN items : items[k].type = "dir"}})

\* u was read at the prompt of this state and is not an input the prompt knows
InvalidInput(u) ==
    /\ u # NoInput
    /\ IF current_repo = "None"
       THEN /\ u \notin {<<"q">>, <<"Q">>}
            /\ ~(IsNumeral(u) /\ IntOf(u) \in 1 .. Len(repos) /\ StrOf(IntOf(u)) = u)
       ELSE /\ u \notin {<<"0">>, <<".">>}
            /\ ~(IsNumeral(u) /\ IntOf(u) \in 1 .. OfferedDirs)

C17_InvalidInputStep ==
    (AtPrompt /\ InvalidInput(user_input'))
        => /\ UNCHANGED << current_repo, current_repo_name, current_path >>
           /\ pc' = "select" /\ status' = "running"

C17_ReturnStep ==
    (AtPrompt /\ pc' # "select")
        => /\ user_input' = <<"0">>
           /\ current_repo # "None"
           /\ pc' = "tempdir"
           /\ repo_id' = current_repo /\ path' = current_path

C17_InvalidInputReprompts == [][C17_InvalidInputStep /\ C17_ReturnStep]_vars

\* in /d of library D, which offers one directory, 9 was typed: the selector
\* is at its prompt with the same repository and path
C17_Witness ==
    /\ AtPrompt
    /\ user_input = <<"9">>
    /\ current_repo = "D" /\ current_path = <<"/", "d">>

(***************************************************************************)
(* C18.  At the directory prompt the input "." moves one level up.  Below  *)
(* the root the path shown before is the new path followed by one more     *)
(* name, and the repository stays chosen; a number of the list appends one *)
(* name to the path, so that "." after it restores the path held before;   *)
(* the path always begins with "/"; at the root "." clears the chosen      *)
(* repository and the next prompt is the repository prompt.                *)
(***************************************************************************)
AtDirPrompt == AtPrompt /\ current_repo # "None"

\* the path q is the path p followed by one more name
OneLevelBelow(q, p) ==
    \E k \in 2 .. Len(q) :
        LET n == SubSeq(q, k, Len(q))
        IN  /\ \A c \in DOMAIN n : n[c] # "/"
            /\ q = Slash(p, n)

C18_AscendStep ==
    (AtDirPrompt /\ user_input' = <<".">>) =>
        /\ pc' = "select" /\ status' = "running"
        /\ IF current_path = Root
           THEN current_repo' = "None" /\ current_repo_name' = "None"
           ELSE /\ OneLevelBelow(current_path, current_path')
                /\ UNCHANGED << current_repo, current_repo_name >>

C18_DescendStep ==
    (AtDirPrompt /\ IsNumeral(user_input') /\ IntOf(user_input') \in 1 .. OfferedDirs) =>
        /\ OneLevelBelow(current_path', current_path)
        /\ UNCHANGED << current_repo, current_repo_name >>

C18_PathIsAbsolute == AtPrompt => (current_path # << >> /\ current_path[1] = "/")

C18_AscendIsOneLevelUp ==
    /\ [][C18_AscendStep /\ C18_DescendStep]_vars
    /\ []C18_PathIsAbsolute

\* in library D the operator went down to /d/f and typed ".": the path is
\* /d again
C18_Witness ==
    /\ AtDirPrompt
    /\ current_repo = "D"
    /\ user_input = <<".">>
    /\ current_path = <<"/", "d">>

(***************************************************************************)
(* C19.  When two archives of one directory d have the same target name T, *)
(* create_dir(d/T) succeeded for the first and the guard's listing for the *)
(* second succeeds, the second is skipped: nothing is downloaded,          *)
(* extracted, created or uploaded for it; and what is uploaded under d/T   *)
(* in the run is the content of one archive only.                          *)
(***************************************************************************)
TargetCreated(i) ==
    /\ i \in Calls
    /\ calls[i].op = "create_dir" /\ calls[i].ok
    /\ calls[i].path = TargetOf(calls[i].arch)

\* the guard listed the directory for another archive of the same directory
\* and target as the archive of call i, after call i
LaterGuardOfTwin(i, j) ==
    /\ j \in GuardListings /\ j > i /\ calls[j].ok
    /\ calls[j].arch # calls[i].arch
    /\ OsPathDirname(calls[j].arch) = OsPathDirname(calls[i].arch)
    /\ TargetOf(calls[j].arch) = TargetOf(calls[i].arch)

\* the upload_file calls that succeeded into the directory t or below it
UploadsUnder(t) ==
    {k \in Calls : /\ calls[k].op = "upload_file" /\ calls[k].ok
                   /\ (calls[k].path = t \/ StartsWith(calls[k].path, t \o <<"/">>))}

C19_TwinSkipped ==
    \A i, j \in Calls :
        (TargetCreated(i) /\ LaterGuardOfTwin(i, j)) =>
            \A k \in Calls : calls[k].arch = calls[j].arch => calls[k].op \notin ProcessingOps

C19_OneArchivesContent ==
    \A i, j \in Calls :
        (TargetCreated(i) /\ LaterGuardOfTwin(i, j)) =>
            \A k, l \in UploadsUnder(calls[i].path) : calls[k].origin = calls[l].origin

C19_SameTargetProcessedOnce == C19_TwinSkipped /\ C19_OneArchivesContent

(***************************************************************************)
(* C20.  As claimed: a directory that was not in the walker's listing of   *)
(* its parent is never enqueued or listed in the traversal, the target     *)
(* directory created for an archive in particular; and so no file that the *)
(* run uploaded is handed to handle_archive_file in the same run.          *)
(***************************************************************************)
\* the paths the walker has dequeued or has yet to dequeue
Enqueued == processed_paths \cup {queue[k] : k \in DOMAIN queue}

\* the walker listed d with success and the listing named no directory n
AbsentFromListing(d, n) ==
    \E i \in WalkerListings : calls[i].ok /\ calls[i].path = d /\ n \notin calls[i].dirs

C20_UnlistedNeverWalked ==
    /\ \A t \in Enqueued :
          t # path => ~AbsentFromListing(OsPathDirname(t), OsPathBasename(t))
    /\ \A k \in Calls :
          (TargetCreated(k)
              /\ AbsentFromListing(OsPathDirname(calls[k].path), OsPathBasename(calls[k].path)))
          => /\ calls[k].path \notin Enqueued
             /\ TimesListed(calls[k].path) = 0

\* the remote file a successful upload_file call has written
Uploaded(k) == Slash(calls[k].path, OsPathBasename(calls[k].local))

C20_NoUploadedArchiveProcessed ==
    \A k, m \in Calls :
        (calls[k].op = "upload_file" /\ calls[k].ok /\ m > k) => calls[m].arch # Uploaded(k)

C20_FreshContentNotProcessed == C20_UnlistedNeverWalked /\ C20_NoUploadedArchiveProcessed

(***************************************************************************)
(* C20, amended.  A directory that was not in the walker's listing of its  *)
(* parent is never enqueued or listed in the traversal, the target         *)
(* directory created for an archive in particular; and no archive below    *)
(* such a target directory is handed to handle_archive_file in the run.    *)
(* (An archive uploaded into a directory that the listing did name, and    *)
(* that is still in the queue, is processed in the same run.)              *)
(***************************************************************************)
C20_NothingBelowFreshTarget ==
    \A k, m \in Calls :
        (TargetCreated(k)
            /\ AbsentFromListing(OsPathDirname(calls[k].path), OsPathBasename(calls[k].path)))
        => ~StartsWith(calls[m].arch, calls[k].path \o <<"/">>)

C20_FreshTargetNotWalked == C20_UnlistedNeverWalked /\ C20_NothingBelowFreshTarget

\* library A walked from the root to the end: /r was created for /r.zip with
\* the subdirectory s in it, and the walker never listed /r
C20_Witness ==
    /\ WalkEnded
    /\ repo_id = "A" /\ path = Root
    /\ \E k \in Calls : TargetCreated(k) /\ calls[k].path = Slash(Root, NameR)
    /\ <<"/", "r", "/", "s">> \in DOMAIN remote["A"]
    /\ TimesListed(Slash(Root, NameR)) = 0

====
